---------------------------- MODULE Spec2Model ----------------------------
(***************************************************************************)
(* Model of the add-ons search detection background script                 *)
(* (src/extension/background.js): the AddonsSearchExperiment class, its    *)
(* webRequest listeners, the map of followed request ids, the delayed      *)
(* unfollow timers and the asynchronous report() tasks, together with the  *)
(* privileged getMatchPatterns/getPublicSuffix/getAddonVersion API.        *)
(*                                                                         *)
(* Strings that the code splits or prefix-matches (URLs, URL templates,    *)
(* match patterns) are sequences of tokens; "?" and "*" are tokens of      *)
(* their own, so split("?") and split("*") cut at a token.                 *)
(***************************************************************************)
EXTENDS Naturals, Sequences, FiniteSets

VARIABLES
    matchPatterns,       \* this.matchPatterns: sequence of [pattern, ids], in key order
    requestIdsToFollow,  \* this.requestIdsToFollow: requestId -> [addonIds, chain]
    redirectListener,    \* onBeforeRedirect(onRedirectHandler): <<>> or <<filter>>
    requestListener,     \* onBeforeRequest(onRequestHandler): <<>> or <<filter>>
    followListener,      \* onBeforeRequest(followHandler) registered
    monitors,            \* monitor() calls suspended in `await this.getMatchPatterns()`
    timers,              \* pending setTimeout callbacks: requestId -> how many
    reports,             \* report() calls suspended in an await
    emitted,             \* history: recordEvent calls per request id and kind
    nextCall,            \* history: number given to the next report() call
    unfollowed,          \* history: ids unfollowed and not followed again since
    last,                \* history: the handler invocation that ran last
    refresh,             \* history: the search service and the refreshes asked of it
    api                  \* the privileged getMatchPatterns() call being served

vars == <<matchPatterns, requestIdsToFollow, redirectListener, requestListener,
          followListener, monitors, timers, reports, emitted, nextCall,
          unfollowed, last, refresh, api>>

-----------------------------------------------------------------------------
(* Bounds of the model. *)

MaxChain == 3
MaxTimers == 2
MaxReports == 2
MaxMonitors == 2

\* Request ids are opaque numbers given by the host.
RequestIds == {101, 102}

-----------------------------------------------------------------------------
(* Telemetry constants, background.js lines 3-11. *)

TELEMETRY_CATEGORY == "addonsSearchExperiment"
TELEMETRY_METHOD_ETLD_CHANGE == "etld_change"
TELEMETRY_OBJECT_WEBREQUEST == "webrequest"
TELEMETRY_OBJECT_OTHER == "other"
TELEMETRY_VALUE_EXTENSION == "extension"
TELEMETRY_VALUE_SERVER == "server"

\* JavaScript null / undefined (an absent add-on id, domain or version).
NULL == "null"

-----------------------------------------------------------------------------
(* The inputs the host can deliver. *)

SearchUrl  == <<"search.example.com", "/", "?", "q=1">>
ResultsUrl == <<"results.example.com", "/", "?", "q=1">>
BingUrl    == <<"bing.com", "/search", "?", "q=1">>

Urls == {SearchUrl, ResultsUrl, BingUrl}

\* Search engines the search service can hold: extension id and URL templates.
\* Engine1 has a search and a suggestion template under the same path.
Engine1 ==
    [id |-> "addon1",
     urls |-> << <<"search.example.com", "/", "?", "q={searchTerms}">>,
                 <<"search.example.com", "/", "?", "suggest={searchTerms}">> >>]

Engine2 ==
    [id |-> "addon2",
     urls |-> << <<"search.example.com", "/", "?", "p={searchTerms}">> >>]

EngineLists == { <<>>, <<Engine1, Engine2>> }

\* The add-on id the host found in the channel's property bag, if any.
AddonIdInputs == {NULL, "addon1"}

Versions == {"1.0", NULL}

-----------------------------------------------------------------------------
(* Pure helpers. *)

\* s.split(c)[0]: the part of s before the first token c, all of s if none.
RECURSIVE BeforeFirst(_, _)
BeforeFirst(s, c) ==
    IF s = <<>> \/ Head(s) = c THEN <<>>
    ELSE <<Head(s)>> \o BeforeFirst(Tail(s), c)

\* url.startsWith(prefix)
StartsWith(url, prefix) ==
    /\ Len(prefix) <= Len(url)
    /\ SubSeq(url, 1, Len(prefix)) = prefix

\* Index of the entry of the pattern map m with key p, 0 if there is none.
KeyIndex(m, p) ==
    IF \E i \in 1..Len(m) : m[i].pattern = p
    THEN CHOOSE i \in 1..Len(m) : m[i].pattern = p
    ELSE 0

Includes(list, x) == \E i \in 1..Len(list) : list[i] = x

\* Object.keys(matchPatterns)
Keys(m) == [i \in 1..Len(m) |-> m[i].pattern]

-----------------------------------------------------------------------------
(* Privileged API, background.js lines 336-386. *)

\* AddTemplate without the `includes` check: the id is pushed again.
AddTemplateNoDedup(patterns, extensionID, template) ==
    LET pattern == BeforeFirst(template, "?") \o <<"*">>
        k == KeyIndex(patterns, pattern)
    IN  IF k = 0
        THEN Append(patterns, [pattern |-> pattern, ids |-> <<extensionID>>])
        ELSE [patterns EXCEPT ![k].ids = Append(@, extensionID)]

\* AddTemplate with the whole template as the key: no split at "?".
AddTemplateKeepsQuery(patterns, extensionID, template) ==
    LET pattern == template \o <<"*">>
        k == KeyIndex(patterns, pattern)
    IN  IF k = 0
        THEN Append(patterns, [pattern |-> pattern, ids |-> <<extensionID>>])
        ELSE IF ~Includes(patterns[k].ids, extensionID)
        THEN [patterns EXCEPT ![k].ids = Append(@, extensionID)]
        ELSE patterns

\* One step of the inner forEach: one URL template of one engine.
AddTemplate(patterns, extensionID, template) ==
    LET pattern == BeforeFirst(template, "?") \o <<"*">>
        k == KeyIndex(patterns, pattern)
    IN  IF k = 0
        THEN Append(patterns, [pattern |-> pattern, ids |-> <<extensionID>>])
        ELSE IF ~Includes(patterns[k].ids, extensionID)
        THEN [patterns EXCEPT ![k].ids = Append(@, extensionID)]
        ELSE patterns

RECURSIVE AddTemplates(_, _, _)
AddTemplates(patterns, extensionID, urls) ==
    IF urls = <<>> THEN patterns
    ELSE AddTemplates(AddTemplate(patterns, extensionID, Head(urls)),
                      extensionID, Tail(urls))

RECURSIVE AddEngines(_, _)
AddEngines(patterns, engines) ==
    IF engines = <<>> THEN patterns
    ELSE AddEngines(AddTemplates(patterns, Head(engines).id, Head(engines).urls),
                    Tail(engines))

\* browser.addonsSearchExperiment.getMatchPatterns() over the visible engines.
ApiGetMatchPatterns(engines) == AddEngines(<<>>, engines)

\* eTLD.getBaseDomain of the URL's host; null when the URL cannot be parsed.
GetPublicSuffix(url) ==
    CASE url[1] = "search.example.com"  -> "example.com"
      [] url[1] = "results.example.com" -> "example.com"
      [] url[1] = "bing.com"            -> "bing.com"
      [] OTHER                          -> NULL


-----------------------------------------------------------------------------
(* Host behaviour the script relies on. *)

\* EventManager.addListener: registering a callback that is already
\* registered is ignored, the earlier filter stays.
AddListener(listener, filter) ==
    IF listener = <<>> THEN <<filter>> ELSE listener

HasListener(listener) == listener # <<>>

\* The host delivers a request to a filtered listener only when its URL matches
\* one of the listener's match patterns (`prefix*`).
MatchesFilter(listener, url) ==
    /\ HasListener(listener)
    /\ \E i \in 1..Len(listener[1]) :
           StartsWith(url, BeforeFirst(listener[1][i], "*"))

-----------------------------------------------------------------------------
(* The followed-requests map. *)

NoChain == [addonIds |-> <<>>, chain |-> <<>>]

EmptyMap == [r \in {} |-> NoChain]

Has(m, requestId) == requestId \in DOMAIN m

MapSet(m, requestId, value) ==
    [r \in DOMAIN m \cup {requestId} |-> IF r = requestId THEN value ELSE m[r]]

MapDelete(m, requestId) ==
    [r \in DOMAIN m \ {requestId} |-> m[r]]

Size(m) == Cardinality(DOMAIN m)

-----------------------------------------------------------------------------
(* History bookkeeping: what the last step did. *)

NoLast ==
    [op |-> "init", rid |-> 0, addonId |-> NULL, url |-> <<>>,
     redirectUrl |-> <<>>, addonIds |-> <<>>, tracked |-> FALSE,
     created |-> FALSE, call |-> 0, dup |-> FALSE, origin |-> "",
     outcome |-> "", chain |-> <<>>, sent |-> <<>>, event |-> <<>>]

\* No engine is visible and no refresh has been asked for; `answers` will hold,
\* per refresh, the registry that its monitor() installed.
NoRefresh ==
    [service |-> <<>>, tickets |-> <<>>, issued |-> 0, answers |-> <<>>]

\* No getMatchPatterns() call is being served.
NoApi == [pc |-> "idle", engines |-> <<>>, n |-> 0, patterns |-> <<>>, threw |-> FALSE]

\* Report calls started so far plus one held back for every followed request,
\* so that an unfollow can always start its report.
Budget == (nextCall - 1) + Size(requestIdsToFollow)

-----------------------------------------------------------------------------
(* AddonsSearchExperiment, background.js lines 15-284. *)

Init ==
    /\ matchPatterns = <<>>
    /\ requestIdsToFollow = EmptyMap
    /\ redirectListener = <<>>
    /\ requestListener = <<>>
    /\ followListener = FALSE
    /\ monitors = 0
    /\ timers = [r \in RequestIds |-> 0]
    /\ reports = {}
    /\ emitted = [r \in RequestIds |-> [immediate |-> 0, deferred |-> 0]]
    /\ nextCall = 1
    /\ unfollowed = {}
    /\ last = NoLast
    /\ refresh = NoRefresh
    /\ api = NoApi

\* GetAddonIdsForUrl with the loop going on to the last pattern that matches.
GetAddonIdsForUrlLastMatch(url) ==
    LET hits == {i \in 1..Len(matchPatterns) :
                    StartsWith(url, BeforeFirst(matchPatterns[i].pattern, "*"))}
    IN  IF hits = {} THEN <<>>
        ELSE matchPatterns[CHOOSE i \in hits : \A j \in hits : i >= j].ids

\* getAddonIdsForUrl(url): the ids of the first pattern whose prefix starts url.
GetAddonIdsForUrl(url) ==
    LET hits == {i \in 1..Len(matchPatterns) :
                    StartsWith(url, BeforeFirst(matchPatterns[i].pattern, "*"))}
    IN  IF hits = {} THEN <<>>
        ELSE matchPatterns[CHOOSE i \in hits : \A j \in hits : i <= j].ids

\* Monitor without the two removeListener calls.
MonitorKeepsListeners ==
    /\ monitors < MaxMonitors
    /\ monitors' = monitors + 1
    /\ last' = [NoLast EXCEPT !.op = "monitor"]
    /\ UNCHANGED <<matchPatterns, requestIdsToFollow, redirectListener,
                   requestListener, followListener, timers, reports, emitted,
                   nextCall, unfollowed>>

\* monitor() up to its await: both filtered listeners are removed if present.
Monitor ==
    /\ monitors < MaxMonitors
    /\ redirectListener' = <<>>
    /\ requestListener' = <<>>
    /\ monitors' = monitors + 1
    /\ last' = [NoLast EXCEPT !.op = "monitor"]
    /\ UNCHANGED <<matchPatterns, requestIdsToFollow, followListener, timers,
                   reports, emitted, nextCall, unfollowed>>

\* RefreshedPatterns without the catch: the answer is used as it comes.
RefreshedPatternsIgnoresFailure(failed, engines) == ApiGetMatchPatterns(engines)

\* getMatchPatterns(): the API's answer, or {} when the call fails.
RefreshedPatterns(failed, engines) ==
    IF failed THEN <<>> ELSE ApiGetMatchPatterns(engines)

\* MonitorResume that also forgets the followed requests and their timers.
MonitorResumeDropsFollowed(failed, engines) ==
    LET refreshed == RefreshedPatterns(failed, engines)
        patterns == Keys(refreshed)
    IN  /\ monitors > 0
        /\ monitors' = monitors - 1
        /\ matchPatterns' = refreshed
        /\ requestIdsToFollow' = EmptyMap
        /\ timers' = [r \in RequestIds |-> 0]
        /\ IF Len(patterns) = 0
           THEN UNCHANGED <<requestListener, redirectListener>>
           ELSE /\ requestListener' = AddListener(requestListener, patterns)
                /\ redirectListener' = AddListener(redirectListener, patterns)
        /\ last' = [NoLast EXCEPT !.op = "monitorResume",
                       !.outcome = IF failed THEN "failed" ELSE "refreshed"]
        /\ UNCHANGED <<followListener, reports, emitted, nextCall, unfollowed>>

\* monitor() from its await on: the registry is replaced and, unless it is
\* empty, both listeners are registered with its keys as the filter.
MonitorResume(failed, engines) ==
    LET refreshed == RefreshedPatterns(failed, engines)
        patterns == Keys(refreshed)
    IN  /\ monitors > 0
        /\ monitors' = monitors - 1
        /\ matchPatterns' = refreshed
        /\ IF Len(patterns) = 0
           THEN UNCHANGED <<requestListener, redirectListener>>
           ELSE /\ requestListener' = AddListener(requestListener, patterns)
                /\ redirectListener' = AddListener(redirectListener, patterns)
        /\ last' = [NoLast EXCEPT !.op = "monitorResume",
                       !.outcome = IF failed THEN "failed" ELSE "refreshed"]
        /\ UNCHANGED <<requestIdsToFollow, followListener, timers, reports,
                       emitted, nextCall, unfollowed>>

\* OnRequestHandler that cancels the pending timers of the request before it
\* sets the new one.
OnRequestHandlerReschedules(requestId) ==
    /\ HasListener(requestListener)
    /\ followListener' = TRUE
    /\ IF ~Has(requestIdsToFollow, requestId)
       THEN timers' = [timers EXCEPT ![requestId] = 1]
       ELSE UNCHANGED timers
    /\ last' = [NoLast EXCEPT !.op = "onRequest", !.rid = requestId,
                              !.tracked = Has(requestIdsToFollow, requestId)]
    /\ UNCHANGED <<matchPatterns, requestIdsToFollow, redirectListener,
                   requestListener, monitors, reports, emitted, nextCall,
                   unfollowed>>

\* onRequestHandler({requestId})
OnRequestHandler(requestId) ==
    /\ HasListener(requestListener)
    /\ followListener' = TRUE
    /\ IF ~Has(requestIdsToFollow, requestId)
       THEN /\ timers[requestId] < MaxTimers
            /\ timers' = [timers EXCEPT ![requestId] = @ + 1]
       ELSE UNCHANGED timers
    /\ last' = [NoLast EXCEPT !.op = "onRequest", !.rid = requestId,
                              !.tracked = Has(requestIdsToFollow, requestId)]
    /\ UNCHANGED <<matchPatterns, requestIdsToFollow, redirectListener,
                   requestListener, monitors, reports, emitted, nextCall,
                   unfollowed>>

\* FollowChain without the comparison with the chain's last URL.
FollowChainAlways(chain, url) == Append(chain, url)

\* FollowChain comparing url with the chain's first URL instead of its last.
FollowChainComparesFirst(chain, url) ==
    IF chain[1] # url THEN Append(chain, url) ELSE chain

\* FollowChain that overwrites the last URL instead of pushing the new one.
FollowChainReplacesLast(chain, url) == [chain EXCEPT ![Len(chain)] = url]

\* The chain after followHandler saw url.
FollowChain(chain, url) ==
    IF chain[Len(chain)] # url THEN Append(chain, url) ELSE chain

\* FollowHandler without the early return: a request that is not followed
\* gets an entry whose chain starts with url.
FollowHandlerCreates(requestId, url) ==
    /\ followListener
    /\ IF ~Has(requestIdsToFollow, requestId)
       THEN requestIdsToFollow' =
                MapSet(requestIdsToFollow, requestId,
                       [addonIds |-> <<>>, chain |-> <<url>>])
       ELSE LET chain == requestIdsToFollow[requestId].chain
            IN  /\ Len(FollowChain(chain, url)) <= MaxChain
                /\ requestIdsToFollow' =
                       [requestIdsToFollow EXCEPT ![requestId].chain =
                            FollowChain(chain, url)]
    /\ last' = [NoLast EXCEPT !.op = "follow", !.rid = requestId, !.url = url,
                              !.tracked = Has(requestIdsToFollow, requestId)]
    /\ UNCHANGED <<matchPatterns, redirectListener, requestListener,
                   followListener, monitors, timers, reports, emitted,
                   nextCall, unfollowed>>

\* followHandler({requestId, url})
FollowHandler(requestId, url) ==
    /\ followListener
    /\ IF ~Has(requestIdsToFollow, requestId)
       THEN UNCHANGED requestIdsToFollow
       ELSE LET chain == requestIdsToFollow[requestId].chain
            IN  /\ Len(FollowChain(chain, url)) <= MaxChain
                /\ requestIdsToFollow' =
                       [requestIdsToFollow EXCEPT ![requestId].chain =
                            FollowChain(chain, url)]
    /\ last' = [NoLast EXCEPT !.op = "follow", !.rid = requestId, !.url = url,
                              !.tracked = Has(requestIdsToFollow, requestId)]
    /\ UNCHANGED <<matchPatterns, redirectListener, requestListener,
                   followListener, monitors, timers, reports, emitted,
                   nextCall, unfollowed>>


\* MaybeServerSideRedirect without the `!addonId` test.
MaybeServerSideRedirectAnyActor(addonId, url, redirectUrl) ==
    url # redirectUrl

\* const maybeServerSideRedirect = !addonId && url !== redirectUrl
MaybeServerSideRedirect(addonId, url, redirectUrl) ==
    addonId = NULL /\ url # redirectUrl

\* ResolveAddonIds looking the URL up even when the host names the add-on.
ResolveAddonIdsByUrl(addonId, url, redirectUrl) ==
    IF url # redirectUrl THEN GetAddonIdsForUrl(url)
    ELSE IF addonId # NULL THEN <<addonId>>
    ELSE <<>>

\* ResolveAddonIds looking the URL up whenever the host names no add-on, also
\* when url equals redirectUrl.
ResolveAddonIdsAlwaysLooksUp(addonId, url, redirectUrl) ==
    IF addonId = NULL THEN GetAddonIdsForUrl(url) ELSE <<addonId>>

\* The add-on ids onRedirectHandler attributes the redirect to.
ResolveAddonIds(addonId, url, redirectUrl) ==
    IF MaybeServerSideRedirect(addonId, url, redirectUrl)
    THEN GetAddonIdsForUrl(url)
    ELSE IF addonId # NULL THEN <<addonId>>
    ELSE <<>>

\* NothingToReport without the early return.
NothingToReportNever(addonIds) == FALSE

\* if (addonIds.length === 0) return
NothingToReport(addonIds) == Len(addonIds) = 0

\* StartFollowing only when both URLs have the same public suffix.
StartFollowingSameSuffixOnly(m, requestId, addonIds, url, redirectUrl) ==
    IF ~Has(m, requestId) /\ GetPublicSuffix(url) = GetPublicSuffix(redirectUrl)
    THEN MapSet(m, requestId, [addonIds |-> addonIds, chain |-> <<url, redirectUrl>>])
    ELSE m

\* StartFollowing without the `has` test: the entry is set again.
StartFollowingOverwrites(m, requestId, addonIds, url, redirectUrl) ==
    MapSet(m, requestId, [addonIds |-> addonIds, chain |-> <<url, redirectUrl>>])

\* "Start following": the entry is set only when the id has none.
StartFollowing(m, requestId, addonIds, url, redirectUrl) ==
    IF ~Has(m, requestId)
    THEN MapSet(m, requestId, [addonIds |-> addonIds, chain |-> <<url, redirectUrl>>])
    ELSE m

\* ReportsNow without the `return` that ends the server-side branch.
ReportsNowAlways(maybeServerSideRedirect) == TRUE

\* Whether onRedirectHandler goes on to call report(): a likely server-side
\* redirect returns after the request is followed.
ReportsNow(maybeServerSideRedirect) == ~maybeServerSideRedirect

\* A report() call up to its first await.
\* call, rid, origin, addonId, chain and sent are history.
ReportCall(call, requestId, origin, addonId, chain, addonIds, url, redirectUrl, telemetryObject, telemetryValue) ==
    [call |-> call, rid |-> requestId, origin |-> origin, addonId |-> addonId,
     chain |-> chain, sent |-> <<>>,
     addonIds |-> addonIds, url |-> url, redirectUrl |-> redirectUrl,
     telemetryObject |-> telemetryObject, telemetryValue |-> telemetryValue,
     pc |-> "from", from |-> NULL, to |-> NULL, idx |-> 0]

\* onRedirectHandler({addonId, redirectUrl, requestId, url})
OnRedirectHandler(requestId, addonId, url, redirectUrl) ==
    LET maybeServerSideRedirect == MaybeServerSideRedirect(addonId, url, redirectUrl)
        addonIds == ResolveAddonIds(addonId, url, redirectUrl)
        follows == ~NothingToReport(addonIds) /\ maybeServerSideRedirect
        calls == ~NothingToReport(addonIds) /\ ReportsNow(maybeServerSideRedirect)
        creates == follows /\ ~Has(requestIdsToFollow, requestId)
    IN  /\ MatchesFilter(redirectListener, url)
        /\ (creates \/ calls) => Budget < MaxReports
        /\ requestIdsToFollow' =
               IF follows
               THEN StartFollowing(requestIdsToFollow, requestId, addonIds,
                                   url, redirectUrl)
               ELSE requestIdsToFollow
        /\ unfollowed' = IF creates THEN unfollowed \ {requestId} ELSE unfollowed
        /\ IF calls
           THEN /\ reports' = reports \cup
                      {ReportCall(nextCall, requestId, "onRedirect", addonId,
                                  <<url, redirectUrl>>, addonIds,
                                  url, redirectUrl, TELEMETRY_OBJECT_WEBREQUEST,
                                  TELEMETRY_VALUE_EXTENSION)}
                /\ nextCall' = nextCall + 1
           ELSE UNCHANGED <<reports, nextCall>>
        /\ last' = [NoLast EXCEPT !.op = "onRedirect", !.rid = requestId,
                       !.addonId = addonId, !.url = url,
                       !.redirectUrl = redirectUrl, !.addonIds = addonIds,
                       !.tracked = Has(requestIdsToFollow, requestId),
                       !.created = (Has(requestIdsToFollow', requestId)
                                      /\ ~Has(requestIdsToFollow, requestId)),
                       !.call = IF calls THEN nextCall ELSE 0]
        /\ UNCHANGED <<matchPatterns, redirectListener, requestListener,
                       followListener, monitors, timers, emitted>>

\* FirstUrl and LastUrl reading the redirect that started the chain.
FirstUrlSecond(chain) == chain[2]

LastUrlSecond(chain) == chain[2]

\* chain[0] and chain[chain.length - 1], the URLs unfollowRequest reports.
FirstUrl(chain) == chain[1]

LastUrl(chain) == chain[Len(chain)]

\* StopFollowing without the delete.
StopFollowingKeeps(m, requestId) == m

\* StopFollowing that deletes only a chain that will be reported.
StopFollowingWhenDomainsDiffer(m, requestId) ==
    IF GetPublicSuffix(FirstUrl(m[requestId].chain)) =
           GetPublicSuffix(LastUrl(m[requestId].chain))
    THEN m
    ELSE MapDelete(m, requestId)

\* this.requestIdsToFollow.delete(requestId)
StopFollowing(m, requestId) == MapDelete(m, requestId)

\* FollowListenerAfterUnfollow without the size test: always removed.
FollowListenerAfterUnfollowAlways(m, listener) == FALSE

\* The follow listener after unfollowRequest: removed when nothing is followed.
FollowListenerAfterUnfollow(m, listener) ==
    IF Size(m) = 0 THEN FALSE ELSE listener

\* unfollowRequest({requestId}), run by the timer onRequestHandler set.
UnfollowRequest(requestId) ==
    /\ timers[requestId] > 0
    /\ timers' = [timers EXCEPT ![requestId] = @ - 1]
    /\ IF Has(requestIdsToFollow, requestId)
       THEN LET entry == requestIdsToFollow[requestId]
            IN  /\ reports' = reports \cup
                      {ReportCall(nextCall, requestId, "unfollow", NULL,
                                  entry.chain, entry.addonIds,
                                  FirstUrl(entry.chain), LastUrl(entry.chain),
                                  TELEMETRY_OBJECT_OTHER, TELEMETRY_VALUE_SERVER)}
                /\ nextCall' = nextCall + 1
                /\ requestIdsToFollow' = StopFollowing(requestIdsToFollow, requestId)
                /\ unfollowed' = unfollowed \cup {requestId}
       ELSE UNCHANGED <<reports, nextCall, requestIdsToFollow, unfollowed>>
    /\ followListener' = FollowListenerAfterUnfollow(requestIdsToFollow', followListener)
    /\ last' = [NoLast EXCEPT !.op = "unfollow", !.rid = requestId,
                   !.tracked = Has(requestIdsToFollow, requestId),
                   !.dup = requestId \in unfollowed,
                   !.call = IF nextCall' # nextCall THEN nextCall ELSE 0,
                   !.chain = IF Has(requestIdsToFollow, requestId)
                             THEN requestIdsToFollow[requestId].chain ELSE <<>>,
                   !.addonIds = IF Has(requestIdsToFollow, requestId)
                                THEN requestIdsToFollow[requestId].addonIds
                                ELSE <<>>]
    /\ UNCHANGED <<matchPatterns, redirectListener, requestListener, monitors,
                   emitted>>


\* SameSuffix never true: report() without its early return.
SameSuffixNever(from, to) == FALSE

\* SameSuffix true only when neither domain could be computed.
SameSuffixOnlyNull(from, to) == from = to /\ from = NULL

\* if (from === to) return
SameSuffix(from, to) == from = to

\* TelemetryEvent with the value fixed instead of taken from the call.
TelemetryEventValueServer(t, addonId, addonVersion) ==
    [category |-> TELEMETRY_CATEGORY, method |-> TELEMETRY_METHOD_ETLD_CHANGE,
     object |-> t.telemetryObject, value |-> TELEMETRY_VALUE_SERVER,
     extra |-> [addonId |-> addonId, addonVersion |-> addonVersion,
                from |-> t.from, to |-> t.to]]

\* The recordEvent call of one loop iteration of report().
TelemetryEvent(t, addonId, addonVersion) ==
    [category |-> TELEMETRY_CATEGORY, method |-> TELEMETRY_METHOD_ETLD_CHANGE,
     object |-> t.telemetryObject, value |-> t.telemetryValue,
     extra |-> [addonId |-> addonId, addonVersion |-> addonVersion,
                from |-> t.from, to |-> t.to]]

\* History: a report started by onRedirectHandler is immediate, one started
\* by unfollowRequest is deferred.
Kind(origin) == IF origin = "onRedirect" THEN "immediate" ELSE "deferred"

ReportStep(t, outcome, sent, event) ==
    [NoLast EXCEPT !.op = "report", !.rid = t.rid, !.call = t.call,
                   !.origin = t.origin, !.addonId = t.addonId,
                   !.addonIds = t.addonIds,
                   !.url = t.url, !.redirectUrl = t.redirectUrl,
                   !.chain = t.chain, !.outcome = outcome, !.sent = sent,
                   !.event = event]

\* report(): getPublicSuffix(url) answers.
ReportFrom(t) ==
    /\ t \in reports
    /\ t.pc = "from"
    /\ reports' = (reports \ {t}) \cup
           {[t EXCEPT !.pc = "to", !.from = GetPublicSuffix(t.url)]}
    /\ last' = ReportStep(t, "pending", <<>>, <<>>)
    /\ UNCHANGED <<matchPatterns, requestIdsToFollow, redirectListener,
                   requestListener, followListener, monitors, timers, emitted,
                   nextCall, unfollowed>>

\* report(): getPublicSuffix(redirectUrl) answers; equal suffixes end the call.
ReportTo(t) ==
    /\ t \in reports
    /\ t.pc = "to"
    /\ LET to == GetPublicSuffix(t.redirectUrl)
       IN  IF SameSuffix(t.from, to) \/ Len(t.addonIds) = 0
           THEN /\ reports' = reports \ {t}
                /\ last' = ReportStep(t, IF SameSuffix(t.from, to)
                                         THEN "same" ELSE "done", <<>>, <<>>)
           ELSE /\ reports' = (reports \ {t}) \cup
                       {[t EXCEPT !.pc = "version", !.to = to, !.idx = 1]}
                /\ last' = ReportStep(t, "pending", <<>>, <<>>)
    /\ UNCHANGED <<matchPatterns, requestIdsToFollow, redirectListener,
                   requestListener, followListener, monitors, timers, emitted,
                   nextCall, unfollowed>>

\* NextIdx skipping an add-on id.
NextIdxSkips(t) == t.idx + 2

\* The loop of report() after an iteration: the next add-on id, or the end.
NextIdx(t) == t.idx + 1

\* report(): getAddonVersion(addonId) answers and the event is recorded.
ReportVersion(t, addonVersion) ==
    LET event == TelemetryEvent(t, t.addonIds[t.idx], addonVersion)
        sent == Append(t.sent, t.addonIds[t.idx])
    IN  /\ t \in reports
        /\ t.pc = "version"
        /\ emitted' = [emitted EXCEPT ![t.rid][Kind(t.origin)] = @ + 1]
        /\ IF NextIdx(t) > Len(t.addonIds)
           THEN /\ reports' = reports \ {t}
                /\ last' = ReportStep(t, "done", sent, <<event>>)
           ELSE /\ reports' = (reports \ {t}) \cup
                       {[t EXCEPT !.idx = NextIdx(t), !.sent = sent]}
                /\ last' = ReportStep(t, "pending", sent, <<event>>)
        /\ UNCHANGED <<matchPatterns, requestIdsToFollow, redirectListener,
                       requestListener, followListener, monitors, timers,
                       nextCall, unfollowed>>

-----------------------------------------------------------------------------

\* The steps of the script for requests `ids` and URLs `urls`.
Step(ids, urls) ==
    \/ Monitor /\ UNCHANGED <<refresh, api>>
    \/ \E failed \in BOOLEAN, engines \in EngineLists :
          MonitorResume(failed, engines) /\ UNCHANGED <<refresh, api>>
    \/ \E requestId \in ids : OnRequestHandler(requestId) /\ UNCHANGED <<refresh, api>>
    \/ \E requestId \in ids, url \in urls :
          FollowHandler(requestId, url) /\ UNCHANGED <<refresh, api>>
    \/ \E requestId \in ids, addonId \in AddonIdInputs,
          url \in urls, redirectUrl \in urls :
              OnRedirectHandler(requestId, addonId, url, redirectUrl) /\ UNCHANGED <<refresh, api>>
    \/ \E requestId \in ids : UnfollowRequest(requestId) /\ UNCHANGED <<refresh, api>>
    \/ \E t \in reports : ReportFrom(t) /\ UNCHANGED <<refresh, api>>
    \/ \E t \in reports : ReportTo(t) /\ UNCHANGED <<refresh, api>>
    \/ \E t \in reports, addonVersion \in Versions :
          ReportVersion(t, addonVersion) /\ UNCHANGED <<refresh, api>>

\* One request and its redirects.
Next == Step({101}, Urls)

Spec == Init /\ [][Next]_vars

\* Timers set with setTimeout fire, and the API calls awaited by monitor() and
\* report() answer.
Fairness ==
    /\ \A requestId \in RequestIds :
          WF_vars(UnfollowRequest(requestId) /\ UNCHANGED <<refresh, api>>)
    /\ WF_vars(\E t \in reports : ReportFrom(t) /\ UNCHANGED <<refresh, api>>)
    /\ WF_vars(\E t \in reports : ReportTo(t) /\ UNCHANGED <<refresh, api>>)
    /\ WF_vars(\E t \in reports, addonVersion \in Versions :
                  ReportVersion(t, addonVersion) /\ UNCHANGED <<refresh, api>>)
    /\ WF_vars(\E failed \in BOOLEAN, engines \in EngineLists :
                  MonitorResume(failed, engines) /\ UNCHANGED <<refresh, api>>)

FairSpec == Spec /\ Fairness


-----------------------------------------------------------------------------
(* monitor() calls that do not overlap: a call completes before the next     *)
(* one starts. The search service can also hold the engine of bing.com.      *)

SoloEngineLists == EngineLists \cup { <<[id |-> "addon4",
    urls |-> << <<"bing.com", "/search", "?", "q={searchTerms}">> >>]>> }

\* The steps of the script when monitor() is called only while no earlier
\* call is suspended, with the search service holding one of `engineLists`.
StepAlone(ids, urls, engineLists) ==
    \/ monitors = 0 /\ Monitor /\ UNCHANGED <<refresh, api>>
    \/ \E failed \in BOOLEAN, engines \in engineLists :
          MonitorResume(failed, engines) /\ UNCHANGED <<refresh, api>>
    \/ \E requestId \in ids : OnRequestHandler(requestId) /\ UNCHANGED <<refresh, api>>
    \/ \E requestId \in ids, url \in urls :
          FollowHandler(requestId, url) /\ UNCHANGED <<refresh, api>>
    \/ \E requestId \in ids, addonId \in AddonIdInputs,
          url \in urls, redirectUrl \in urls :
              OnRedirectHandler(requestId, addonId, url, redirectUrl) /\ UNCHANGED <<refresh, api>>
    \/ \E requestId \in ids : UnfollowRequest(requestId) /\ UNCHANGED <<refresh, api>>
    \/ \E t \in reports : ReportFrom(t) /\ UNCHANGED <<refresh, api>>
    \/ \E t \in reports : ReportTo(t) /\ UNCHANGED <<refresh, api>>
    \/ \E t \in reports, addonVersion \in Versions :
          ReportVersion(t, addonVersion) /\ UNCHANGED <<refresh, api>>

SoloNext == StepAlone({101}, {SearchUrl, BingUrl}, SoloEngineLists)

SoloSpec == Init /\ [][SoloNext]_vars

-----------------------------------------------------------------------------
(* Two requests side by side, with monitor() calls that do not overlap. *)

PairNext == StepAlone(RequestIds, {SearchUrl, BingUrl}, EngineLists)

PairSpec == Init /\ [][PairNext]_vars

-----------------------------------------------------------------------------
(* A request that is redirected to an IP address: getBaseDomain throws for   *)
(* such a host and getPublicSuffix answers null.                             *)

IpUrl == <<"127.0.0.1", "/">>

LocalNext == StepAlone({101}, {SearchUrl, IpUrl}, EngineLists)

LocalSpec == Init /\ [][LocalNext]_vars

-----------------------------------------------------------------------------
(* One server-side hop of request 101, from search.example.com to bing.com:  *)
(* the host delivers it to onRedirectHandler and its target to followHandler *)
(* in any order and any number of times.                                     *)

HopNext ==
    \/ monitors = 0 /\ Monitor /\ UNCHANGED <<refresh, api>>
    \/ \E failed \in BOOLEAN, engines \in EngineLists :
          MonitorResume(failed, engines) /\ UNCHANGED <<refresh, api>>
    \/ OnRequestHandler(101) /\ UNCHANGED <<refresh, api>>
    \/ FollowHandler(101, BingUrl) /\ UNCHANGED <<refresh, api>>
    \/ OnRedirectHandler(101, NULL, SearchUrl, BingUrl) /\ UNCHANGED <<refresh, api>>
    \/ UnfollowRequest(101) /\ UNCHANGED <<refresh, api>>
    \/ \E t \in reports : ReportFrom(t) /\ UNCHANGED <<refresh, api>>
    \/ \E t \in reports : ReportTo(t) /\ UNCHANGED <<refresh, api>>
    \/ \E t \in reports, addonVersion \in Versions :
          ReportVersion(t, addonVersion) /\ UNCHANGED <<refresh, api>>

HopSpec == Init /\ [][HopNext]_vars

-----------------------------------------------------------------------------
(* getAddonIdsForUrl over registries with several patterns. *)

\* An engine whose template has no path: its pattern covers the whole host.
Engine3 ==
    [id |-> "addon3",
     urls |-> << <<"search.example.com", "?", "q={searchTerms}">> >>]

Engine4 ==
    [id |-> "addon4",
     urls |-> << <<"bing.com", "/search", "?", "q={searchTerms}">> >>]

LookupEngines == {Engine1, Engine2, Engine3, Engine4}

MaxEngines == 3

\* The visible engines in any order, each at most once.
LookupEngineLists ==
    {engines \in UNION {[1..n -> LookupEngines] : n \in 0..MaxEngines} :
        \A i, j \in 1..Len(engines) : i # j => engines[i] # engines[j]}

HostUrl == <<"search.example.com">>

LookupUrls == Urls \cup {HostUrl}

\* The script once its first monitor() call has completed over `engines`.
LookupInit ==
    \E engines \in LookupEngineLists :
        LET refreshed == RefreshedPatterns(FALSE, engines)
            patterns == Keys(refreshed)
        IN  /\ matchPatterns = refreshed
            /\ requestListener =
                   IF Len(patterns) = 0 THEN <<>> ELSE AddListener(<<>>, patterns)
            /\ redirectListener =
                   IF Len(patterns) = 0 THEN <<>> ELSE AddListener(<<>>, patterns)
            /\ requestIdsToFollow = EmptyMap
            /\ followListener = FALSE
            /\ monitors = 0
            /\ timers = [r \in RequestIds |-> 0]
            /\ reports = {}
            /\ emitted = [r \in RequestIds |-> [immediate |-> 0, deferred |-> 0]]
            /\ nextCall = 1
            /\ unfollowed = {}
            /\ last = NoLast
            /\ refresh = NoRefresh
            /\ api = NoApi

\* this.getAddonIdsForUrl(url), as onRedirectHandler calls it.
Lookup(url) ==
    /\ last' = [NoLast EXCEPT !.op = "lookup", !.url = url,
                              !.addonIds = GetAddonIdsForUrl(url)]
    /\ UNCHANGED <<matchPatterns, requestIdsToFollow, redirectListener,
                   requestListener, followListener, monitors, timers, reports,
                   emitted, nextCall, unfollowed>>

LookupNext == \E url \in LookupUrls : Lookup(url) /\ UNCHANGED <<refresh, api>>

LookupSpec == LookupInit /\ [][LookupNext]_vars

-----------------------------------------------------------------------------
(* The refreshes of the registry: the call of monitor() at startup and the   *)
(* one made for every onSearchEngineModified notification. Each call asks    *)
(* the API for the patterns and resumes when its own answer arrives; the     *)
(* script does not order the answers of the calls that are in flight.        *)

MaxRefreshes == 3

\* The history after one more call of monitor(): its refresh is in flight.
IssueRefresh(r) ==
    [r EXCEPT !.issued = @ + 1,
              !.answers = Append(@, NULL),
              !.tickets = Append(@, [seq |-> r.issued + 1, read |-> FALSE,
                                     failed |-> FALSE, engines |-> <<>>])]

\* The refreshes in flight but the i-th.
Without(tickets, i) ==
    [j \in 1..(Len(tickets) - 1) |-> IF j < i THEN tickets[j] ELSE tickets[j + 1]]

\* The refresh numbered k was asked for and monitor() has completed for it.
Completed(k) ==
    /\ refresh.issued >= k
    /\ \A i \in 1..Len(refresh.tickets) : refresh.tickets[i].seq # k

\* exp.monitor() at startup.
StartupMonitor ==
    /\ refresh.issued = 0
    /\ Monitor
    /\ refresh' = IssueRefresh(refresh)
    /\ UNCHANGED api

\* The search service's engines become `engines` and the listener of
\* onSearchEngineModified calls monitor().
OnSearchEngineModified(engines) ==
    /\ refresh.issued \in 1..(MaxRefreshes - 1)
    /\ Monitor
    /\ refresh' = [IssueRefresh(refresh) EXCEPT !.service = engines]
    /\ UNCHANGED api

\* The API's getMatchPatterns serves the i-th refresh in flight: it reads the
\* engines that are visible now, or fails.
GetEngines(i, failed) ==
    /\ i \in 1..Len(refresh.tickets)
    /\ ~refresh.tickets[i].read
    /\ refresh' = [refresh EXCEPT !.tickets[i].read = TRUE,
                                  !.tickets[i].failed = failed,
                                  !.tickets[i].engines = refresh.service]
    /\ UNCHANGED <<matchPatterns, requestIdsToFollow, redirectListener,
                   requestListener, followListener, monitors, timers, reports,
                   emitted, nextCall, unfollowed, last, api>>

\* The answer of the i-th refresh in flight arrives and its monitor() resumes.
MonitorAnswered(i) ==
    /\ i \in 1..Len(refresh.tickets)
    /\ refresh.tickets[i].read
    /\ MonitorResume(refresh.tickets[i].failed, refresh.tickets[i].engines)
    /\ refresh' = [refresh EXCEPT !.tickets = Without(@, i),
                                  !.answers[refresh.tickets[i].seq] = matchPatterns']
    /\ UNCHANGED api

RefreshNext ==
    \/ StartupMonitor
    \/ \E engines \in EngineLists : OnSearchEngineModified(engines)
    \/ \E i \in 1..MaxMonitors, failed \in BOOLEAN : GetEngines(i, failed)
    \/ \E i \in 1..MaxMonitors : MonitorAnswered(i)

RefreshSpec == Init /\ [][RefreshNext]_vars

\* The API serves every call and every answer arrives.
RefreshFairness ==
    /\ \A i \in 1..MaxMonitors : WF_vars(\E failed \in BOOLEAN : GetEngines(i, failed))
    /\ \A i \in 1..MaxMonitors : WF_vars(MonitorAnswered(i))

RefreshFairSpec == RefreshSpec /\ RefreshFairness

-----------------------------------------------------------------------------
(* The privileged getMatchPatterns() serving one call: the two forEach loops *)
(* visit the templates one by one inside the try block, and a throw at any   *)
(* point (the search service failing, an engine without _urls) is caught.    *)

\* An engine whose templates have no "?" and more than one "?".
Engine5 ==
    [id |-> "addon5",
     urls |-> << <<"plain.example.com", "/s">>,
                 <<"twice.example.com", "/", "?", "a=1", "?", "b=2">> >>]

BuildEngines == {Engine1, Engine2, Engine3, Engine5}

\* The visible engines in any order, each at most once.
BuildEngineLists ==
    {engines \in UNION {[1..n -> BuildEngines] : n \in 0..MaxEngines} :
        \A i, j \in 1..Len(engines) : i # j => engines[i] # engines[j]}

\* The templates of one engine, each with the engine's _extensionID.
TemplatesOf(engine) ==
    [i \in 1..Len(engine.urls) |-> [id |-> engine.id, template |-> engine.urls[i]]]

\* The templates in the order the two forEach loops visit them.
RECURSIVE Visited(_)
Visited(engines) ==
    IF engines = <<>> THEN <<>>
    ELSE TemplatesOf(Head(engines)) \o Visited(Tail(engines))

\* catch (err) { Cu.reportError(err) } and then `return patterns`.
AfterThrow(call) == [call EXCEPT !.pc = "returned", !.threw = TRUE]

\* getMatchPatterns() is called while the search service holds `engines`.
ApiCall(engines) ==
    /\ api.pc \in {"idle", "returned"}
    /\ api' = [NoApi EXCEPT !.pc = "building", !.engines = engines]
    /\ UNCHANGED <<matchPatterns, requestIdsToFollow, redirectListener,
                   requestListener, followListener, monitors, timers, reports,
                   emitted, nextCall, unfollowed, last, refresh>>

\* The next template is visited.
ApiForEach ==
    /\ api.pc = "building"
    /\ api.n < Len(Visited(api.engines))
    /\ LET next == Visited(api.engines)[api.n + 1]
       IN  api' = [api EXCEPT !.n = @ + 1,
                              !.patterns = AddTemplate(@, next.id, next.template)]
    /\ UNCHANGED <<matchPatterns, requestIdsToFollow, redirectListener,
                   requestListener, followListener, monitors, timers, reports,
                   emitted, nextCall, unfollowed, last, refresh>>

\* Something inside the try block throws.
ApiThrows ==
    /\ api.pc = "building"
    /\ api' = AfterThrow(api)
    /\ UNCHANGED <<matchPatterns, requestIdsToFollow, redirectListener,
                   requestListener, followListener, monitors, timers, reports,
                   emitted, nextCall, unfollowed, last, refresh>>

\* The loops are over: return patterns.
ApiReturns ==
    /\ api.pc = "building"
    /\ api.n = Len(Visited(api.engines))
    /\ api' = [api EXCEPT !.pc = "returned"]
    /\ UNCHANGED <<matchPatterns, requestIdsToFollow, redirectListener,
                   requestListener, followListener, monitors, timers, reports,
                   emitted, nextCall, unfollowed, last, refresh>>

BuildNext ==
    \/ \E engines \in BuildEngineLists : ApiCall(engines)
    \/ ApiForEach
    \/ ApiThrows
    \/ ApiReturns

BuildSpec == Init /\ [][BuildNext]_vars

-----------------------------------------------------------------------------
(* Properties. *)

Tracked(requestId) == Has(requestIdsToFollow, requestId)

SameDomain(url, redirectUrl) == GetPublicSuffix(url) = GetPublicSuffix(redirectUrl)

SomePatternPrefixes(url) ==
    \E i \in 1..Len(matchPatterns) :
        StartsWith(url, BeforeFirst(matchPatterns[i].pattern, "*"))

NoDuplicates(list) ==
    \A i, j \in 1..Len(list) : i # j => list[i] # list[j]

EventsOf(requestId) == emitted[requestId].immediate + emitted[requestId].deferred

C3_SecondUnfollowReportsNothing ==
    (last.op = "unfollow" /\ last.dup) =>
        /\ ~last.tracked
        /\ last.call = 0
        /\ ~Tracked(last.rid)

\* The second timer of a request fires while the first unfollow's report is
\* suspended in getAddonVersion.
C3_Witness ==
    /\ last.op = "unfollow"
    /\ last.dup
    /\ \E t \in reports :
           t.rid = last.rid /\ t.origin = "unfollow" /\ t.pc = "version"

\* C4: an onRedirect call with no add-on id whose url equals redirectUrl or
\* is prefixed by no pattern of the registry starts no report and creates no
\* chain.
C4_EmptyActorIdsIsNoOp ==
    ( /\ last.op = "onRedirect"
      /\ last.addonId = NULL
      /\ (last.url = last.redirectUrl \/ ~SomePatternPrefixes(last.url)) ) =>
        /\ last.call = 0
        /\ ~last.created
        /\ (Tracked(last.rid) <=> last.tracked)

\* A server-side redirect passes the listener's filter after the registry
\* was emptied.
C4_Witness ==
    /\ last.op = "onRedirect"
    /\ last.addonId = NULL
    /\ last.url # last.redirectUrl
    /\ ~SomePatternPrefixes(last.url)

\* C5: an onRedirect call with an add-on id whose url and redirectUrl have
\* the same public suffix does not make the request followed, and its report
\* records no event.
C5_ActorSameDomainIsSilent ==
    /\ ( /\ last.op = "onRedirect"
         /\ last.addonId # NULL
         /\ SameDomain(last.url, last.redirectUrl) ) =>
           /\ ~last.created
           /\ (Tracked(last.rid) <=> last.tracked)
    /\ ( /\ last.op = "report"
         /\ last.origin = "onRedirect"
         /\ SameDomain(last.url, last.redirectUrl) ) =>
           /\ last.event = <<>>
           /\ last.sent = <<>>
           /\ last.outcome \in {"pending", "same"}

\* The report of an add-on's redirect between two hosts of example.com ends
\* without an event.
C5_Witness ==
    /\ last.op = "report"
    /\ last.origin = "onRedirect"
    /\ last.addonId = "addon1"
    /\ last.url = SearchUrl
    /\ last.redirectUrl = ResultsUrl
    /\ last.outcome = "same"
    /\ EventsOf(last.rid) = 0

\* C6: an onRedirect call with an add-on id whose url and redirectUrl have
\* different public suffixes starts a report that records exactly one event:
\* object "webrequest", value "extension", that add-on id, from the suffix of
\* url to the suffix of redirectUrl.
C6_ActorCrossDomainOneEvent ==
    /\ ( /\ last.op = "onRedirect"
         /\ last.addonId # NULL
         /\ ~SameDomain(last.url, last.redirectUrl) ) => last.call # 0
    /\ ( /\ last.op = "report"
         /\ last.origin = "onRedirect"
         /\ ~SameDomain(last.url, last.redirectUrl) ) =>
           /\ last.outcome \in {"pending", "done"}
           /\ Len(last.sent) <= 1
           /\ last.outcome = "done" => last.sent = <<last.addonId>>
           /\ last.event # <<>> =>
                  /\ last.event[1].category = "addonsSearchExperiment"
                  /\ last.event[1].method = "etld_change"
                  /\ last.event[1].object = "webrequest"
                  /\ last.event[1].value = "extension"
                  /\ last.event[1].extra.addonId = last.addonId
                  /\ last.event[1].extra.from = GetPublicSuffix(last.url)
                  /\ last.event[1].extra.to = GetPublicSuffix(last.redirectUrl)

\* The report of an add-on's redirect from example.com to bing.com ends with
\* its one event.
C6_Witness ==
    /\ last.op = "report"
    /\ last.origin = "onRedirect"
    /\ last.outcome = "done"
    /\ last.event # <<>>
    /\ last.event[1].extra.from = "example.com"
    /\ last.event[1].extra.to = "bing.com"
    /\ emitted[last.rid].immediate = 1


\* A server-side redirect the registry attributes, between two public suffixes.
ServerSideCrossDomain ==
    /\ last.op = "onRedirect"
    /\ last.addonId = NULL
    /\ last.url # last.redirectUrl
    /\ SomePatternPrefixes(last.url)
    /\ ~SameDomain(last.url, last.redirectUrl)

C8_DeferredReportFromFirstToLast ==
    /\ ( /\ last.op = "unfollow"
         /\ last.tracked ) =>
           /\ last.call # 0
           /\ \E t \in reports :
                  /\ t.call = last.call
                  /\ t.chain = last.chain
                  /\ t.addonIds = last.addonIds
    /\ ( /\ last.op = "report"
         /\ last.origin = "unfollow"
         /\ ~SameDomain(last.chain[1], last.chain[Len(last.chain)]) ) =>
           /\ last.outcome \in {"pending", "done"}
           /\ last.sent = SubSeq(last.addonIds, 1, Len(last.sent))
           /\ (last.outcome = "done") => last.sent = last.addonIds
           /\ (last.event # <<>>) =>
                  /\ last.event[1].object = "other"
                  /\ last.event[1].value = "server"
                  /\ last.event[1].extra.addonId = last.addonIds[Len(last.sent)]
                  /\ last.event[1].extra.from = GetPublicSuffix(last.chain[1])
                  /\ last.event[1].extra.to =
                         GetPublicSuffix(last.chain[Len(last.chain)])

\* A chain that began with a hop inside example.com and was followed to
\* bing.com is reported from example.com to bing.com.
C8_Witness ==
    /\ last.op = "report"
    /\ last.origin = "unfollow"
    /\ last.outcome = "done"
    /\ last.chain = <<SearchUrl, ResultsUrl, BingUrl>>
    /\ last.event[1].extra.from = "example.com"
    /\ last.event[1].extra.to = "bing.com"
    /\ last.sent = <<"addon1", "addon2">>

\* C9: the report unfollow starts for a chain whose first and last URL have
\* the same public suffix records no event, whatever the URLs in between.
C9_SameEndsNoEvent ==
    ( /\ last.op = "report"
      /\ last.origin = "unfollow"
      /\ SameDomain(last.chain[1], last.chain[Len(last.chain)]) ) =>
        /\ last.event = <<>>
        /\ last.sent = <<>>
        /\ last.outcome \in {"pending", "same"}

\* A chain from example.com over bing.com back to example.com has been
\* unfollowed and its report has ended without an event.
C9_Witness ==
    /\ last.op = "report"
    /\ last.origin = "unfollow"
    /\ last.outcome = "same"
    /\ last.chain = <<SearchUrl, BingUrl, ResultsUrl>>
    /\ EventsOf(last.rid) = 0

\* C10: under fair firing of timers, every request id that becomes followed
\* is eventually unfollowed and removed from the map.
C10_FollowedEventuallyUnfollowed ==
    \A requestId \in RequestIds : Tracked(requestId) ~> ~Tracked(requestId)


NoEqualNeighbours(chain) ==
    \A i \in 1..(Len(chain) - 1) : chain[i] # chain[i + 1]

\* C11: no followed chain holds two equal consecutive URLs: a chain is created
\* as [url, redirectUrl] with url different from redirectUrl, and a follow
\* call that sees the chain's last URL again leaves the map as it was.
C11_NoConsecutiveDuplicates ==
    /\ [](\A requestId \in RequestIds :
              Tracked(requestId) =>
                  NoEqualNeighbours(requestIdsToFollow[requestId].chain))
    /\ [](last.created =>
              /\ last.url # last.redirectUrl
              /\ requestIdsToFollow[last.rid].chain = <<last.url, last.redirectUrl>>)
    /\ [][ ( /\ last'.op = "follow"
             /\ Tracked(last'.rid)
             /\ LastUrl(requestIdsToFollow[last'.rid].chain) = last'.url )
           => requestIdsToFollow' = requestIdsToFollow ]_vars

\* followHandler has just seen results.example.com for a request whose chain
\* already ended with it: chains start with two URLs, so nothing was appended.
C11_Witness ==
    /\ last.op = "follow"
    /\ last.tracked
    /\ last.url = ResultsUrl
    /\ Tracked(last.rid)
    /\ requestIdsToFollow[last.rid].chain = <<SearchUrl, ResultsUrl>>

\* C13: every recorded event has category "addonsSearchExperiment" and method
\* "etld_change"; its object and value are "webrequest" and "extension" when
\* onRedirectHandler started the report and "other" and "server" when
\* unfollowRequest did, and no other pair occurs.
C13_EventFieldsAreFixed ==
    last.event # <<>> =>
        LET event == last.event[1]
        IN  /\ Len(last.event) = 1
            /\ last.op = "report"
            /\ event.category = "addonsSearchExperiment"
            /\ event.method = "etld_change"
            /\ <<event.object, event.value>> \in
                   { <<"webrequest", "extension">>, <<"other", "server">> }
            /\ (last.origin = "onRedirect") <=> (event.object = "webrequest")
            /\ (last.origin = "unfollow") <=> (event.value = "server")

\* An event of each pair has been recorded for the request.
C13_Witness ==
    /\ last.event # <<>>
    /\ last.event[1].object = "webrequest"
    /\ last.event[1].value = "extension"
    /\ emitted[last.rid].deferred > 0


\* The part of a pattern before its wildcard is a prefix of url.
PatternPrefixes(i, url) ==
    StartsWith(url, BeforeFirst(matchPatterns[i].pattern, "*"))

\* C12: getAddonIdsForUrl(url) returns the add-on ids of the first pattern, in
\* the registry's insertion order, whose part before the wildcard is a prefix
\* of url, whatever later patterns match; it returns the empty list exactly
\* when no pattern's prefix is a prefix of url.
C12_LookupFirstMatchWins ==
    last.op = "lookup" =>
        /\ (last.addonIds = <<>>) <=>
               (~\E i \in 1..Len(matchPatterns) : PatternPrefixes(i, last.url))
        /\ \A i \in 1..Len(matchPatterns) :
               ( /\ PatternPrefixes(i, last.url)
                 /\ \A j \in 1..(i - 1) : ~PatternPrefixes(j, last.url) )
               => last.addonIds = matchPatterns[i].ids

\* The host-wide pattern of addon3 was registered first and the path pattern
\* of addon1 after it: both prefix the URL and the lookup answers addon3 only.
C12_Witness ==
    /\ last.op = "lookup"
    /\ last.url = SearchUrl
    /\ Len(matchPatterns) >= 2
    /\ matchPatterns[1].ids = <<"addon3">>
    /\ PatternPrefixes(1, last.url)
    /\ PatternPrefixes(2, last.url)
    /\ matchPatterns[2].ids # matchPatterns[1].ids
    /\ last.addonIds = <<"addon3">>


\* Both filtered listeners are registered with the registry's keys, or neither
\* is registered when the registry is empty.
ListenersMatchRegistry ==
    IF Len(matchPatterns) = 0
    THEN ~HasListener(requestListener) /\ ~HasListener(redirectListener)
    ELSE /\ requestListener = <<Keys(matchPatterns)>>
         /\ redirectListener = <<Keys(matchPatterns)>>

\* C14: when monitor() calls do not overlap, after a call has completed the
\* onBeforeRequest and onBeforeRedirect listeners are both registered with
\* exactly the keys of the refreshed registry if it is not empty, and neither
\* is registered if it is empty, whatever was registered before the call.
C14_MonitorAloneInstallsRefreshedKeys ==
    /\ last.op = "monitorResume" => monitors = 0
    /\ monitors = 0 => ListenersMatchRegistry

\* A monitor() call has completed with the engine of bing.com alone and both
\* listeners filter on its pattern.
C14_Witness ==
    /\ last.op = "monitorResume"
    /\ last.outcome = "refreshed"
    /\ monitors = 0
    /\ Keys(matchPatterns) = << <<"bing.com", "/search", "*">> >>
    /\ requestListener = <<Keys(matchPatterns)>>
    /\ redirectListener = <<Keys(matchPatterns)>>

\* C15: when getMatchPatterns fails, the registry becomes the empty map, the
\* monitor() call still completes, and it registers no onBeforeRequest or
\* onBeforeRedirect listener.
C15_FailedRefreshStopsMonitoring ==
    /\ []( (last.op = "monitorResume" /\ last.outcome = "failed") =>
               Len(matchPatterns) = 0 )
    /\ [][ (last'.op = "monitorResume" /\ last'.outcome = "failed") =>
               /\ monitors' = monitors - 1
               /\ requestListener' = requestListener
               /\ redirectListener' = redirectListener ]_vars

\* The only suspended monitor() call has completed after a failed refresh:
\* the registry is empty and no filtered listener is registered.
C15_Witness ==
    /\ last.op = "monitorResume"
    /\ last.outcome = "failed"
    /\ monitors = 0
    /\ Len(matchPatterns) = 0
    /\ ~HasListener(requestListener)
    /\ ~HasListener(redirectListener)


\* C16: once overlapping monitor() calls have all completed, the
\* onBeforeRequest and onBeforeRedirect listeners are registered if and only
\* if the registry is not empty, and their filter is the registry's keys.
C16_OverlappingMonitorsConverge ==
    monitors = 0 => ListenersMatchRegistry


\* C17: whenever at least one request id is followed, the wildcard
\* onBeforeRequest listener with followHandler is registered.
C17_FollowedImpliesFollowListener ==
    (\E requestId \in RequestIds : Tracked(requestId)) => followListener


\* onRedirectHandler has just run for a likely server-side redirect.
ServerSideCall ==
    /\ last.op = "onRedirect"
    /\ last.addonId = NULL
    /\ last.url # last.redirectUrl

C19_FollowedEntryNotOverwritten ==
    /\ [][ (last'.op = "onRedirect" /\ Tracked(last'.rid))
               => requestIdsToFollow' = requestIdsToFollow ]_vars
    /\ [](\A requestId \in DOMAIN requestIdsToFollow :
              /\ requestId \in RequestIds
              /\ DOMAIN requestIdsToFollow[requestId] = {"addonIds", "chain"}
              /\ Len(requestIdsToFollow[requestId].chain) >= 2)

\* A second server-side redirect has arrived for a followed request: the
\* entry still holds the chain of the first one.
C19_Witness ==
    /\ ServerSideCall
    /\ last.tracked
    /\ last.addonIds # <<>>
    /\ Tracked(last.rid)
    /\ requestIdsToFollow[last.rid].chain # <<last.url, last.redirectUrl>>
    /\ requestIdsToFollow[last.rid].chain[2] # last.redirectUrl


\* C20: a followHandler call for a request id that is not followed changes
\* nothing: no entry is created, the entries of other request ids stay as
\* they were, no timer is set, no report is started and no event is recorded.
C20_FollowOfUnfollowedIdChangesNothing ==
    /\ [][ (last'.op = "follow" /\ ~Tracked(last'.rid)) =>
               /\ ~last'.tracked
               /\ last'.event = <<>>
               /\ UNCHANGED <<requestIdsToFollow, timers, reports, emitted,
                              nextCall, matchPatterns, redirectListener,
                              requestListener, followListener, monitors,
                              unfollowed>> ]_vars
    /\ []((last.op = "follow" /\ ~last.tracked) => ~Tracked(last.rid))

\* followHandler has just seen a URL of request 102, which is not followed,
\* while request 101 is followed with a chain that ends with another URL.
C20_Witness ==
    /\ last.op = "follow"
    /\ last.rid = 102
    /\ ~last.tracked
    /\ last.url = SearchUrl
    /\ ~Tracked(102)
    /\ Tracked(101)
    /\ requestIdsToFollow[101].chain = <<SearchUrl, BingUrl>>
    /\ timers[102] = 0


\* C21: unfollowRequest for a followed request id always removes the id from
\* the map, in the same turn in which its report is started: whatever the
\* public suffixes of the chain are, and before getPublicSuffix or
\* getAddonVersion has answered.
C21_UnfollowAlwaysRemoves ==
    (last.op = "unfollow" /\ last.tracked) =>
        /\ ~Tracked(last.rid)
        /\ last.rid \in unfollowed
        /\ \E t \in reports :
               /\ t.call = last.call
               /\ t.pc = "from"
               /\ t.sent = <<>>

\* A chain that starts and ends in example.com has been unfollowed: the id is
\* gone from the map while the report still waits for the first suffix.
C21_Witness ==
    /\ last.op = "unfollow"
    /\ last.tracked
    /\ last.chain = <<SearchUrl, ResultsUrl>>
    /\ ~Tracked(last.rid)
    /\ \E t \in reports : t.call = last.call /\ t.pc = "from"


\* C22: right after an unfollowRequest call that leaves the map empty the
\* wildcard follow listener is not registered; an unfollowRequest call that
\* leaves the map non-empty leaves the follow listener as it was.
C22_FollowListenerRemovedWhenIdle ==
    /\ []((last.op = "unfollow" /\ Size(requestIdsToFollow) = 0)
              => ~followListener)
    /\ [][ (last'.op = "unfollow" /\ Size(requestIdsToFollow') > 0)
               => followListener' = followListener ]_vars

\* Request 101 has been unfollowed while request 102 is still followed: the
\* follow listener is still registered.
C22_Witness ==
    /\ last.op = "unfollow"
    /\ last.rid = 101
    /\ last.tracked
    /\ Tracked(102)
    /\ ~Tracked(101)
    /\ followListener


C24_NoEventWithoutDomain ==
    /\ last.event # <<>> =>
           /\ last.event[1].extra.from # NULL
           /\ last.event[1].extra.to # NULL
    /\ ( /\ last.op = "report"
         /\ \/ GetPublicSuffix(last.url) = NULL
            \/ GetPublicSuffix(last.redirectUrl) = NULL )
       => last.event = <<>>


\* C25: when getAddonVersion answers null for an add-on id of a report, no
\* event with a null addonVersion is recorded.
C25_NoEventWithoutVersion ==
    last.event # <<>> => last.event[1].extra.addonVersion # NULL


\* C26: the script asks the host to remove a listener only when it is
\* registered and to add one only when it is not: unfollowRequest calls
\* removeListener for followHandler only while followHandler is registered,
\* and monitor() calls addListener for onRequestHandler and onRedirectHandler
\* only while they are not registered.
C26_AddAndRemoveAreExistenceChecked ==
    [][ /\ (last'.op = "unfollow" /\ Size(requestIdsToFollow') = 0)
               => followListener
        /\ (last'.op = "monitorResume" /\ Len(matchPatterns') # 0)
               => /\ ~HasListener(requestListener)
                  /\ ~HasListener(redirectListener) ]_vars


\* C27: a request id whose chain unfollowRequest has removed is never
\* followed again, whatever onRedirectHandler or followHandler call comes
\* for it later.
C27_UnfollowedStaysUnfollowed ==
    [][ \A requestId \in unfollowed :
            requestId \notin DOMAIN requestIdsToFollow' ]_vars


\* C28: for one server-side hop from url to redirectUrl of a request that is
\* not followed, the chain is [url, redirectUrl] whether followHandler sees
\* redirectUrl before onRedirectHandler runs, after it, or both, and however
\* often the two are delivered.
C28_HopOrderDoesNotChangeChain ==
    /\ Tracked(101) =>
           /\ requestIdsToFollow[101].chain = <<SearchUrl, BingUrl>>
           /\ requestIdsToFollow[101].addonIds # <<>>
    /\ (last.op = "follow" /\ ~last.tracked) => ~Tracked(101)
    /\ (last.op = "unfollow" /\ last.tracked) =>
           last.chain = <<SearchUrl, BingUrl>>

\* followHandler has seen bing.com for the followed request, after
\* onRedirectHandler recorded the hop: the chain is still the hop alone.
C28_Witness ==
    /\ last.op = "follow"
    /\ last.tracked
    /\ last.url = BingUrl
    /\ Tracked(101)
    /\ requestIdsToFollow[101].chain = <<SearchUrl, BingUrl>>


\* C29: when onRedirectHandler is given an add-on id, the attributed list is
\* that id alone, whatever the registry holds for url; the registry's answer
\* is used only when no add-on id is given and url differs from redirectUrl;
\* with no add-on id and url equal to redirectUrl the list is empty.
C29_ActorIdBypassesRegistry ==
    last.op = "onRedirect" =>
        /\ last.addonId # NULL => last.addonIds = <<last.addonId>>
        /\ (last.addonId = NULL /\ last.url # last.redirectUrl) =>
               last.addonIds = GetAddonIdsForUrl(last.url)
        /\ (last.addonId = NULL /\ last.url = last.redirectUrl) =>
               last.addonIds = <<>>

\* addon1 has redirected a URL whose pattern belongs to addon1 and addon2:
\* the redirect is attributed to addon1 alone.
C29_Witness ==
    /\ last.op = "onRedirect"
    /\ last.addonId = "addon1"
    /\ last.url # last.redirectUrl
    /\ GetAddonIdsForUrl(last.url) = <<"addon1", "addon2">>
    /\ last.addonIds = <<"addon1">>
    /\ last.call # 0

\* C30: a report whose two public suffixes differ records one event for each
\* of its add-on ids, in order, and no other: when it has completed, n events
\* have been recorded for n add-on ids, and every one of them carries the
\* same `from` and `to`, the suffixes of the report's two URLs.
C30_OneEventPerAddonId ==
    last.op = "report" =>
        /\ Len(last.sent) <= Len(last.addonIds)
        /\ last.sent = SubSeq(last.addonIds, 1, Len(last.sent))
        /\ last.outcome = "done" => last.sent = last.addonIds
        /\ last.outcome = "same" =>
               /\ last.sent = <<>>
               /\ SameDomain(last.url, last.redirectUrl)
        /\ last.event # <<>> =>
               /\ last.event[1].extra.addonId = last.sent[Len(last.sent)]
               /\ last.event[1].extra.from = GetPublicSuffix(last.url)
               /\ last.event[1].extra.to = GetPublicSuffix(last.redirectUrl)
               /\ last.event[1].extra.from # last.event[1].extra.to
        /\ last.event = <<>> => last.sent = <<>>
        /\ EventsOf(last.rid) >= Len(last.sent)

\* The report of a chain under the pattern of addon1 and addon2 has completed
\* with its second event, the one of addon2.
C30_Witness ==
    /\ last.op = "report"
    /\ last.outcome = "done"
    /\ last.addonIds = <<"addon1", "addon2">>
    /\ last.sent = <<"addon1", "addon2">>
    /\ last.event[1].extra.addonId = "addon2"
    /\ EventsOf(last.rid) = 2

\* C31: every registry-changed notification is eventually followed by a
\* completed monitor() run, and from then on the registry holds the answer to
\* a refresh asked for at or after that notification, never the answer to an
\* older refresh that was overtaken by it.
C31_NotifiedRefreshWinsRegistry ==
    /\ \A k \in 2..MaxRefreshes : (refresh.issued >= k) ~> Completed(k)
    /\ [](\A k \in 2..MaxRefreshes :
             Completed(k) => \E j \in k..refresh.issued :
                                 Completed(j) /\ matchPatterns = refresh.answers[j])

\* C32: every telemetry event that is recorded has `from` different from
\* `to`; no event records a transition between equal domains.
C32_EventDomainsDiffer ==
    (last.op = "report" /\ last.event # <<>>) =>
        \A i \in 1..Len(last.event) : last.event[i].extra.from # last.event[i].extra.to

\* A deferred report of a chain from search.example.com to bing.com records
\* its event, from "example.com" to "bing.com".
C32_Witness ==
    /\ last.op = "report"
    /\ last.origin = "unfollow"
    /\ last.event # <<>>
    /\ last.event[1].extra.from = "example.com"
    /\ last.event[1].extra.to = "bing.com"

\* C33: the add-on ids of a followed request are those looked up when its
\* chain was created. A monitor() call, and the registry refresh that ends
\* it, leave every followed request, its add-on ids, its chain and its pending
\* timers as they were; the ids of an entry never change while the request is
\* followed; and the report started by unfollowRequest is given the ids of
\* the entry, whatever the registry holds by then.
C33_ActorIdsFixedAtCreation ==
    /\ [][last'.op \in {"monitor", "monitorResume"} =>
              UNCHANGED <<requestIdsToFollow, timers>>]_vars
    /\ [][last'.created =>
              /\ last'.addonIds = GetAddonIdsForUrl(last'.url)
              /\ requestIdsToFollow'[last'.rid].addonIds = last'.addonIds]_vars
    /\ [][\A r \in RequestIds :
              (Tracked(r) /\ Has(requestIdsToFollow', r)) =>
                  requestIdsToFollow'[r].addonIds = requestIdsToFollow[r].addonIds]_vars
    /\ [][(last'.op = "unfollow" /\ Tracked(last'.rid)) =>
              \E t \in reports' \ reports :
                  /\ t.call = last'.call
                  /\ t.addonIds = requestIdsToFollow[last'.rid].addonIds]_vars
    /\ [](last.op = "report" =>
              \A i \in 1..Len(last.event) :
                  Includes(last.addonIds, last.event[i].extra.addonId))

\* The registry was emptied while request 101 was followed, and unfollowRequest
\* starts the deferred report with the add-ons found at creation.
C33_Witness ==
    /\ last.op = "unfollow"
    /\ last.rid = 101
    /\ last.call # 0
    /\ matchPatterns = <<>>
    /\ last.addonIds = <<"addon1", "addon2">>

\* C34: the chain of every followed request has at least two URLs; the chain
\* a redirect creates starts with the url of that redirect; and while the
\* request stays followed its chain only grows at the end, so the first URL
\* never changes and no recorded URL is removed or moved.
C34_ChainOnlyGrows ==
    /\ [](\A r \in RequestIds :
              Tracked(r) => Len(requestIdsToFollow[r].chain) >= 2)
    /\ [][last'.created =>
              requestIdsToFollow'[last'.rid].chain[1] = last'.url]_vars
    /\ [][\A r \in RequestIds :
              (Tracked(r) /\ Has(requestIdsToFollow', r)) =>
                  LET old == requestIdsToFollow[r].chain
                      new == requestIdsToFollow'[r].chain
                  IN  /\ Len(new) >= Len(old)
                      /\ \A i \in 1..Len(old) : new[i] = old[i]]_vars

\* followHandler pushed a third URL on the chain that began with the redirect
\* from search.example.com to results.example.com.
C34_Witness ==
    /\ last.op = "follow"
    /\ last.url = BingUrl
    /\ Tracked(101)
    /\ requestIdsToFollow[101].chain = <<SearchUrl, ResultsUrl, BingUrl>>

\* `pattern` is the text of `template` before its first "?", followed by "*".
IsKeyOf(pattern, template) ==
    \E n \in 0..Len(template) :
        /\ pattern = SubSeq(template, 1, n) \o <<"*">>
        /\ \A i \in 1..n : template[i] # "?"
        /\ n = Len(template) \/ template[n + 1] = "?"

\* C35: the map built by the privileged getMatchPatterns() has, for every
\* template visited, the key made of the template's text before its first "?"
\* and "*", with the engine's extension id in the key's list; every id in a
\* list comes from a visited template with that key and is listed once; a
\* call that does not fail visits every template of every engine; and a throw
\* inside the try block makes the call return the map built so far instead of
\* rejecting.
C35_MapOfVisitedTemplates ==
    /\ [](LET visited == Visited(api.engines)
              map == api.patterns
          IN  /\ api.pc # "rejected"
              /\ \A i \in 1..api.n : \E k \in 1..Len(map) :
                     /\ IsKeyOf(map[k].pattern, visited[i].template)
                     /\ Includes(map[k].ids, visited[i].id)
              /\ \A k \in 1..Len(map) :
                     /\ NoDuplicates(map[k].ids)
                     /\ \A j \in 1..Len(map[k].ids) : \E i \in 1..api.n :
                            /\ visited[i].id = map[k].ids[j]
                            /\ IsKeyOf(map[k].pattern, visited[i].template)
                     /\ \A k2 \in 1..Len(map) :
                            map[k2].pattern = map[k].pattern => k2 = k
              /\ (api.pc = "returned" /\ ~api.threw) =>
                     /\ api.n = Len(visited)
                     /\ map = ApiGetMatchPatterns(api.engines))
    /\ [][(api.pc = "building" /\ api'.pc # "building") =>
              /\ api'.pc = "returned"
              /\ api'.patterns = api.patterns]_vars

\* The call failed after the templates of addon1 and addon2 and before those
\* of addon5, and returned the one key built so far with both ids.
C35_Witness ==
    /\ api.pc = "returned"
    /\ api.threw
    /\ api.engines = <<Engine1, Engine2, Engine5>>
    /\ api.n = 3
    /\ api.patterns = <<[pattern |-> <<"search.example.com", "/", "*">>,
                         ids |-> <<"addon1", "addon2">>]>>

=============================================================================
